---- MODULE Spec2Model ----
(***************************************************************************)
(* A model of src/jobs/docs.ts: the Trigger.dev jobs process-single-url,   *)
(* process-site, delete-assistant and question-assistant, with the         *)
(* services they call (the sitemap fetch, the OpenAI files / assistants /  *)
(* threads API and the environment key-value store) as shared state.       *)
(*                                                                         *)
(* Every io.* call is a suspension point of a run, so every io.* call is   *)
(* an action (two for a call that starts work and waits for it: a batch of *)
(* invocations, a thread run); the synchronous code between two calls      *)
(* belongs to the action of the call that precedes it.  The loops of       *)
(* process-single-url are stepped through one pass at a time.              *)
(*                                                                         *)
(* The code throws plain Error / TypeError values.  The model records a    *)
(* failed run's error under the name the specification's taxonomy gives    *)
(* to that failure: a rejected fetch is "FetchError", the TypeError of     *)
(* parsed.urlset.url.map is "MalformedSitemapError", and so on.            *)
(***************************************************************************)
EXTENDS Integers, Sequences, FiniteSets, TLC

\* ------------------------------------------------------------ bounds
\* Runs of process-site that are triggered in one behaviour.
MaxRuns == 2
\* The longest sitemap url array the sitemap fetch returns.
MaxLen == 3
\* Threads of the OpenAI account, and messages of one thread.
MaxThreads == 1
MaxMessages == 12
\* The elements inside <body> of a page.
MaxNodes == 4
\* The longest url list given to the chunking loop on its own.
MaxChunkLen == 51
\* The batch size of the crawl.  The source's literal is 25 (ChunkSize below);
\* the runs of process-site are explored with this smaller size so that every
\* interleaving of a batch's invocations can be enumerated, and the chunking
\* itself is checked with the literal 25 under SpecChunk.
BatchSize == 2

\* ------------------------------------------------------------ program constants
\* for (let i = 0; i < sitemapUrls.length; i += 25) ... slice(i, i + 25)
ChunkSize == 25
\* concurrencyLimit: 1
concurrencyLimit == 1
\* limit: 10
limit == 10

\* ------------------------------------------------------------ values
\* Site root urls (payload.url of process-site and question-assistant).
Sites == {"siteA", "siteB"}
\* Page urls a sitemap lists.
PageUrls == {"p", "q"}
\* JavaScript's undefined: the value of x.loc for a <url> entry without <loc>.
Undefined == "undefined"
\* No value: store.env.get found nothing, a local not yet assigned.
NoId == 0
Runs == 1..MaxRuns

Min(a, b) == IF a < b THEN a ELSE b

\* Array.prototype.slice(a, b) on a 0-based array held as a 1-based sequence.
Slice(s, a, b) == [k \in 1..(Min(b, Len(s)) - Min(a, Len(s))) |-> s[a + k]]

RECURSIVE Flatten(_)
Flatten(ss) == IF ss = <<>> THEN <<>> ELSE Head(ss) \o Flatten(Tail(ss))

\* ------------------------------------------------------------ chunking
\* Mutant of Chunk: the slice ends one element early.
RECURSIVE ChunkFromShort(_, _, _)
ChunkFromShort(urls, size, i) ==
    IF i < Len(urls)
    THEN <<[index |-> i, urls |-> Slice(urls, i, i + size - 1)]>>
             \o ChunkFromShort(urls, size, i + size)
    ELSE <<>>

\* The chunking loop: for (i = 0; i < length; i += size) push {index: i, urls: slice(i, i + size)}.
RECURSIVE ChunkFrom(_, _, _)
ChunkFrom(urls, size, i) ==
    IF i < Len(urls)
    THEN <<[index |-> i, urls |-> Slice(urls, i, i + size)]>>
             \o ChunkFrom(urls, size, i + size)
    ELSE <<>>

ChunkShort(urls, size) == ChunkFromShort(urls, size, 0)

\* The chunks of a url list.
Chunk(urls, size) == ChunkFrom(urls, size, 0)

\* ------------------------------------------------------------ state
VARIABLES
    registry,    \* io.store.env: site root url -> knowledge-base (assistant) id, NoId when unset
    assistants,  \* the assistants of the OpenAI account; the id is the position
    files,       \* the number of files uploaded to the OpenAI account; ids 1..files
    run,         \* the runs of process-site: position, locals and task log of each
    threads,     \* the threads of the OpenAI account: the number of messages of each
    ask,         \* the run of question-assistant: position, payload, locals, task log
    chunkIn,     \* the url list given to the chunking loop checked on its own
    chunkOut,    \* what the chunking loop made of chunkIn, once it ran
    dom,         \* the document JSDOM built for a run of process-single-url
    seg          \* that run of process-single-url: position and locals

siteVars == <<registry, assistants, files, run>>
askVars == <<threads, ask>>
chunkVars == <<chunkIn, chunkOut, dom, seg>>
vars == <<siteVars, askVars, chunkVars>>

\* A run that was not triggered yet, and the locals of a run that ended.
NoRun ==
    [pc |-> "idle", url |-> "none", status |-> "none", sitemapUrls |-> <<>>,
     chunks |-> <<>>, ci |-> 0, results |-> <<>>, pages |-> <<>>, dropped |-> {},
     file |-> NoId, assistant |-> NoId, id |-> NoId,
     tasks |-> {}, batchKeys |-> <<>>, error |-> "none", returned |-> NoId]

InitSite ==
    /\ registry = [s \in Sites |-> NoId]
    /\ assistants = <<>>
    /\ files = 0
    /\ run = [r \in Runs |-> NoRun]

Executing(r) == run[r].pc \notin {"idle", "done", "failed"}

\* The run ends by a thrown error: its locals are gone, its task log stays.
Failed(rec, err) ==
    [NoRun EXCEPT !.pc = "failed", !.url = rec.url, !.tasks = rec.tasks,
                  !.error = err]

\* The run ends by return { id }.
Returned(rec, id) ==
    [NoRun EXCEPT !.pc = "done", !.url = rec.url, !.tasks = rec.tasks,
                  !.returned = id]

\* ------------------------------------------------------------ process-site
\* The event process.site starts a run; the job's concurrencyLimit admits it
\* (a limit of the job: one run at a time, whatever its site).  Run ids are
\* given in the order of the events.
TriggerProcessSite(r, url) ==
    /\ run[r].pc = "idle"
    /\ \A q \in Runs : q < r => run[q].pc # "idle"
    /\ Cardinality({q \in Runs : Executing(q)}) < concurrencyLimit
    /\ run' = [run EXCEPT ![r] = [NoRun EXCEPT !.pc = "get-sitemap-urls", !.url = url]]
    /\ UNCHANGED <<registry, assistants, files, askVars, chunkVars>>

\* What XMLParser.parse returns for a response body:
\*   no-urlset     the body has no <urlset> root (an error page, not XML)
\*   empty-urlset  <urlset></urlset>: parsed.urlset is "", parsed.urlset.url undefined
\*   single-url    one <url>: parsed.urlset.url is an object, not an array
\*   url-array     two or more <url>: parsed.urlset.url is an array; an entry is
\*                 the value of its loc property, Undefined without <loc>
Entries == PageUrls \cup {Undefined}
ArraysOf(S, lo, hi) == UNION {[1..n -> S] : n \in lo..hi}
Parsed ==
    [kind : {"no-urlset", "empty-urlset"}, url : {<<>>}]
        \cup [kind : {"single-url"}, url : ArraysOf(Entries, 1, 1)]
        \cup [kind : {"url-array"}, url : ArraysOf(Entries, 2, MaxLen)]

\* What fetch(sitemapUrl) does: it rejects (network failure), or resolves to a
\* response of a success or non-success status with some body.
SitemapResponses ==
    [rejected : {TRUE}, ok : {FALSE}, parsed : {[kind |-> "no-urlset", url |-> <<>>]}]
        \cup [rejected : {FALSE}, ok : BOOLEAN, parsed : Parsed]

\* parsed.urlset.url.map((x) => x.loc): a TypeError unless url is an array.
MapLocThrows(parsed) == parsed.kind # "url-array"
MapLoc(parsed) == [k \in 1..Len(parsed.url) |-> parsed.url[k]]

\* The task get-sitemap-urls throws: fetch rejected, or the map threw.  The
\* response's status is not looked at.
SitemapThrows(resp) == resp.rejected \/ MapLocThrows(resp.parsed)

SitemapError(resp) == IF resp.rejected THEN "FetchError" ELSE "MalformedSitemapError"

SitemapResult(resp) == IF MapLocThrows(resp.parsed) THEN <<>> ELSE MapLoc(resp.parsed)

\* io.runTask("get-sitemap-urls") and the chunking loop that follows it.
GetSitemapUrls(r) ==
    /\ run[r].pc = "get-sitemap-urls"
    /\ \E resp \in SitemapResponses :
         run' = [run EXCEPT ![r] =
                   IF SitemapThrows(resp)
                   THEN Failed(@, SitemapError(resp))
                   ELSE [@ EXCEPT !.pc = "log-chunks",
                                  !.status = IF resp.ok THEN "success" ELSE "non-success",
                                  !.tasks = @ \cup {"get-sitemap-urls"},
                                  !.sitemapUrls = SitemapResult(resp),
                                  !.chunks = Chunk(SitemapResult(resp), BatchSize),
                                  !.ci = 1]]
    /\ UNCHANGED <<registry, assistants, files, askVars, chunkVars>>

\* io.logger.info("Processing n chunks").
LogChunks(r) ==
    /\ run[r].pc = "log-chunks"
    /\ run' = [run EXCEPT ![r].pc =
                 IF run[r].chunks = <<>> THEN "log-pages" ELSE "invoke-batch"]
    /\ UNCHANGED <<registry, assistants, files, askVars, chunkVars>>

\* processSingleUrl.batchInvokeAndWaitForCompletion("invoke-batch-<index>", ...):
\* one invocation per url of the chunk is launched.  batchKeys holds the
\* indices of the task keys invoke-batch-<index> used so far.
InvokeBatch(r) ==
    /\ run[r].pc = "invoke-batch"
    /\ LET chunk == run[r].chunks[run[r].ci] IN
         run' = [run EXCEPT ![r] =
                   [@ EXCEPT !.pc = "wait-batch",
                             !.batchKeys = Append(@, chunk.index),
                             !.tasks = @ \cup {"invoke-batch"},
                             !.results = [k \in 1..Len(chunk.urls) |-> "pending"]]]
    /\ UNCHANGED <<registry, assistants, files, askVars, chunkVars>>

\* One run of process-single-url ends.  It fails when its fetch rejects; the
\* payload schema z.string().url() rejects undefined, so that invocation fails.
SingleUrlEnds(r, k, ok) ==
    /\ run[r].pc = "wait-batch"
    /\ k \in DOMAIN run[r].results
    /\ run[r].results[k] = "pending"
    /\ ok => run[r].chunks[run[r].ci].urls[k] # Undefined
    /\ run' = [run EXCEPT ![r].results[k] = IF ok THEN "ok" ELSE "failed"]
    /\ UNCHANGED <<registry, assistants, files, askVars, chunkVars>>

\* Mutant of Collected: the result.ok test is missing.
CollectedAll(results, chunk) ==
    [k \in 1..Len(results) |-> [url |-> chunk.urls[k], page |-> chunk.urls[k]]]

\* Mutant of Collected: the results are pushed last to first.
CollectedReversed(results, chunk) ==
    LET oks == SelectSeq([k \in 1..Len(results) |-> Len(results) + 1 - k],
                         LAMBDA k : results[k] = "ok")
    IN  [j \in 1..Len(oks) |-> [url |-> chunk.urls[oks[j]], page |-> chunk.urls[oks[j]]]]

\* for (i = 0; i < results.length; i++) if (result.ok) pages.push({url, page}):
\* what one batch adds to pages.  The page text carries its url as a header.
Collected(results, chunk) ==
    LET oks == SelectSeq([k \in 1..Len(results) |-> k], LAMBDA k : results[k] = "ok")
    IN  [j \in 1..Len(oks) |-> [url |-> chunk.urls[oks[j]], page |-> chunk.urls[oks[j]]]]

\* Mutant of BatchComplete: the await returns as soon as one invocation ended.
BatchAnyEnded(results) == \E k \in DOMAIN results : results[k] # "pending"

\* await ...batchInvokeAndWaitForCompletion(...) resolves: every invocation of
\* the batch has ended, in success or in failure.
BatchComplete(results) == \A k \in DOMAIN results : results[k] # "pending"

\* The batch is complete (every invocation ended): its results are collected
\* and the loop goes to the next chunk.  (status, the status of the sitemap
\* response, is kept up to here only to relate it to the first batch.)
CollectBatch(r) ==
    /\ run[r].pc = "wait-batch"
    /\ BatchComplete(run[r].results)
    /\ LET chunk == run[r].chunks[run[r].ci]
           res == run[r].results IN
         run' = [run EXCEPT ![r] =
                   [@ EXCEPT !.pc = IF run[r].ci < Len(run[r].chunks) THEN "invoke-batch"
                                                                      ELSE "log-pages",
                             !.ci = @ + 1,
                             !.results = <<>>,
                             !.status = "none",
                             !.dropped = @ \cup {chunk.index + k - 1 : k \in
                                                   {j \in DOMAIN res : res[j] = "failed"}},
                             !.pages = @ \o Collected(res, chunk)]]
    /\ UNCHANGED <<registry, assistants, files, askVars, chunkVars>>

\* io.logger.info("Processed n pages").
LogPages(r) ==
    /\ run[r].pc = "log-pages"
    /\ run' = [run EXCEPT ![r].pc = "upload-file"]
    /\ UNCHANGED <<registry, assistants, files, askVars, chunkVars>>

\* Mutant of UploadFile: a failed upload does not throw, the run goes on.
UploadFileUnchecked(r, ok) ==
    /\ run[r].pc = "upload-file"
    /\ IF ok
       THEN /\ files' = files + 1
            /\ run' = [run EXCEPT ![r] =
                         [@ EXCEPT !.pc = "get-assistant", !.file = files + 1,
                                   !.tasks = @ \cup {"upload-file"}]]
       ELSE /\ files' = files
            /\ run' = [run EXCEPT ![r].pc = "get-assistant"]
    /\ UNCHANGED <<registry, assistants, askVars, chunkVars>>

\* io.openai.files.createAndWaitForProcessing("upload-file"): the corpus
\* (pages joined by blank lines) is uploaded as one file and the run waits until
\* it is processed; a failed upload or processing throws.
UploadFile(r, ok) ==
    /\ run[r].pc = "upload-file"
    /\ IF ok
       THEN /\ files' = files + 1
            /\ run' = [run EXCEPT ![r] =
                         [@ EXCEPT !.pc = "get-assistant", !.file = files + 1,
                                   !.tasks = @ \cup {"upload-file"}]]
       ELSE /\ files' = files
            /\ run' = [run EXCEPT ![r] = Failed(@, "UploadError")]
    /\ UNCHANGED <<registry, assistants, askVars, chunkVars>>

\* Mutant of Lookup: the registry is read under a key that is never written.
LookupNothing(store, key) == NoId

\* io.store.env.get(key): the stored value, or nothing.
Lookup(store, key) == store[key]

\* io.store.env.get("get-assistant", payload.url) and the branch on its result.
GetAssistant(r) ==
    /\ run[r].pc = "get-assistant"
    /\ LET assistant == Lookup(registry, run[r].url) IN
         run' = [run EXCEPT ![r] =
                   [@ EXCEPT !.pc = IF assistant = NoId THEN "create-assistant"
                                                         ELSE "update-assistant",
                             !.assistant = assistant,
                             !.tasks = @ \cup {"get-assistant"}]]
    /\ UNCHANGED <<registry, assistants, files, askVars, chunkVars>>

\* io.openai.beta.assistants.create("create-assistant", {name, ..., file_ids: [file.id]}).
CreateAssistant(r) ==
    /\ run[r].pc = "create-assistant"
    /\ assistants' = Append(assistants,
                            [name |-> run[r].url, file_ids |-> <<run[r].file>>,
                             deleted |-> FALSE])
    /\ run' = [run EXCEPT ![r] =
                 [@ EXCEPT !.pc = "set-assistant", !.id = Len(assistants) + 1,
                           !.tasks = @ \cup {"create-assistant"}]]
    /\ UNCHANGED <<registry, files, askVars, chunkVars>>

\* Mutant of Store: the write is lost.
StoreNothing(store, key, value) == store

\* Mutant of Store: a key that holds a value keeps it (the first write wins).
StoreIfAbsent(store, key, value) ==
    IF store[key] = NoId THEN [store EXCEPT ![key] = value] ELSE store

\* io.store.env.set(key, value).
Store(store, key, value) == [store EXCEPT ![key] = value]

\* io.store.env.set("set-assistant", payload.url, { id }); return { id }.
SetAssistant(r) ==
    /\ run[r].pc = "set-assistant"
    /\ registry' = Store(registry, run[r].url, run[r].id)
    /\ run' = [run EXCEPT ![r] =
                 Returned([@ EXCEPT !.tasks = @ \cup {"set-assistant"}], @.id)]
    /\ UNCHANGED <<assistants, files, askVars, chunkVars>>

\* io.openai.beta.assistants.update("update-assistant", assistant.id, {file_ids});
\* return { id: assistant.id }.  The API answers 404 for an assistant that was
\* deleted, and the task throws.
UpdateAssistant(r) ==
    /\ run[r].pc = "update-assistant"
    /\ LET id == run[r].assistant IN
         IF assistants[id].deleted
         THEN /\ run' = [run EXCEPT ![r] = Failed(@, "UpdateError")]
              /\ UNCHANGED assistants
         ELSE /\ assistants' = [assistants EXCEPT ![id].file_ids = <<run[r].file>>]
              /\ run' = [run EXCEPT ![r] =
                           Returned([@ EXCEPT !.tasks = @ \cup {"update-assistant"}], id)]
    /\ UNCHANGED <<registry, files, askVars, chunkVars>>

\* ------------------------------------------------------------ delete-assistant
\* Mutant of DeleteAssistant: the registry entries that hold the id are cleared.
DeleteAssistantAndEntry(id) ==
    /\ id \in DOMAIN assistants
    /\ ~assistants[id].deleted
    /\ assistants' = [assistants EXCEPT ![id].deleted = TRUE]
    /\ registry' = [s \in Sites |-> IF registry[s] = id THEN NoId ELSE registry[s]]
    /\ UNCHANGED <<files, run, askVars, chunkVars>>

\* io.openai.beta.assistants.del("delete", payload.id).  Deleting an id that
\* does not exist fails the run and changes nothing.
DeleteAssistant(id) ==
    /\ id \in DOMAIN assistants
    /\ ~assistants[id].deleted
    /\ assistants' = [assistants EXCEPT ![id].deleted = TRUE]
    /\ UNCHANGED <<registry, files, run, askVars, chunkVars>>

\* ------------------------------------------------------------ question-assistant
\* payload.threadId is optional: absent (undefined), or a string; value 0 is
\* the empty string and value k > 0 the id of thread k.
ThreadIdInputs == [present : {FALSE}, value : {0}] \cup [present : {TRUE}, value : 0..MaxThreads]

\* The terminal statuses of a run, and the last_error a run of a status carries.
TerminalStatuses == {"completed", "failed", "cancelled", "expired"}
LastErrors(status) ==
    IF status = "failed" THEN {"server_error", "rate_limit_exceeded"} ELSE {"null"}

NoError == [kind |-> "none", status |-> "none", last_error |-> "null"]
NoThreadRun == [thread_id |-> NoId, assistant_id |-> NoId, status |-> "none", last_error |-> "null"]
NoAsk ==
    [pc |-> "idle", url |-> "none", threadId |-> [present |-> FALSE, value |-> 0],
     assistant |-> NoId, thread |-> NoId, run |-> NoThreadRun,
     tasks |-> {}, error |-> NoError, messages |-> <<>>]

InitAsk ==
    /\ threads = <<>>
    /\ ask = NoAsk

\* The run ends by a thrown error.
AskFailed(rec, err) == [rec EXCEPT !.pc = "failed", !.error = err]

\* Mutant of Truthy: any threadId that is present counts, the empty string too.
TruthyPresent(threadId) == threadId.present

\* A truthy payload.threadId: present and not the empty string.
Truthy(threadId) == threadId.present /\ threadId.value # 0

\* question-assistant is invoked.  The model runs one invocation at a time; a
\* new one starts only while the thread it names has room for its messages.
TriggerAsk(url, threadId) ==
    /\ ask.pc \in {"idle", "done", "failed"}
    /\ IF Truthy(threadId) /\ threadId.value \in DOMAIN threads
       THEN threads[threadId.value] + 2 <= MaxMessages
       ELSE Truthy(threadId) \/ Len(threads) < MaxThreads
    /\ ask' = [NoAsk EXCEPT !.pc = "get-assistant", !.url = url, !.threadId = threadId]
    /\ UNCHANGED <<siteVars, threads, chunkVars>>

\* Mutant of AssistantMissing: the test of the lookup is missing.
AssistantNeverMissing(assistant) == FALSE

\* if (!assistant)
AssistantMissing(assistant) == assistant = NoId

\* io.store.env.get("get-assistant", payload.url); throws when nothing is stored.
AskGetAssistant ==
    /\ ask.pc = "get-assistant"
    /\ LET assistant == Lookup(registry, ask.url)
           got == [ask EXCEPT !.tasks = @ \cup {"get-assistant"}, !.assistant = assistant] IN
         ask' = IF AssistantMissing(assistant)
                THEN AskFailed(got, [NoError EXCEPT !.kind = "UnknownSiteError"])
                ELSE [got EXCEPT !.pc = "thread"]
    /\ UNCHANGED <<siteVars, threads, chunkVars>>

\* payload.threadId ? threads.retrieve("get-thread", payload.threadId)
\*                  : threads.create("create-thread").
\* Retrieving a thread that does not exist throws.
AskThread ==
    /\ ask.pc = "thread"
    /\ IF Truthy(ask.threadId)
       THEN /\ threads' = threads
            /\ ask' = IF ask.threadId.value \in DOMAIN threads
                      THEN [ask EXCEPT !.pc = "create-message",
                                       !.thread = ask.threadId.value,
                                       !.tasks = @ \cup {"get-thread"}]
                      ELSE AskFailed(ask, [NoError EXCEPT !.kind = "ThreadError"])
       ELSE /\ threads' = Append(threads, 0)
            /\ ask' = [ask EXCEPT !.pc = "create-message",
                                  !.thread = Len(threads) + 1,
                                  !.tasks = @ \cup {"create-thread"}]
    /\ UNCHANGED <<siteVars, chunkVars>>

\* threads.messages.create("create-message", thread.id, {content, role: "user"}).
AskCreateMessage ==
    /\ ask.pc = "create-message"
    /\ threads' = [threads EXCEPT ![ask.thread] = @ + 1]
    /\ ask' = [ask EXCEPT !.pc = "run-thread", !.tasks = @ \cup {"create-message"}]
    /\ UNCHANGED <<siteVars, chunkVars>>

\* threads.runs.createAndWaitForCompletion("run-thread", thread.id,
\* {model, assistant_id}): the run is created, queued.  The API rejects a run
\* for an assistant that was deleted, and the task throws.
AskRunCreate ==
    /\ ask.pc = "run-thread"
    /\ ask' = IF ask.assistant \notin DOMAIN assistants \/ assistants[ask.assistant].deleted
              THEN AskFailed(ask, [NoError EXCEPT !.kind = "RunError"])
              ELSE [ask EXCEPT !.pc = "run-wait",
                               !.run = [thread_id |-> ask.thread,
                                        assistant_id |-> ask.assistant,
                                        status |-> "queued", last_error |-> "null"]]
    /\ UNCHANGED <<siteVars, threads, chunkVars>>

\* Mutant of RunNotCompleted: only the status failed is taken for a failure.
RunOnlyFailed(status) == status = "failed"

\* if (run.status !== "completed")
RunNotCompleted(status) == status # "completed"

\* The run reaches a terminal status (a completed run has added the assistant's
\* reply to the thread) and createAndWaitForCompletion returns it; the status
\* check that follows throws with the status and last_error.
AskRunEnds(status, last_error) ==
    /\ ask.pc = "run-wait"
    /\ threads' = IF status = "completed"
                  THEN [threads EXCEPT ![ask.run.thread_id] = @ + 1]
                  ELSE threads
    /\ LET ended == [ask EXCEPT !.run.status = status, !.run.last_error = last_error,
                                !.tasks = @ \cup {"run-thread"}] IN
         ask' = IF RunNotCompleted(status)
                THEN AskFailed(ended, [kind |-> "RunFailedError", status |-> status,
                                       last_error |-> last_error])
                ELSE [ended EXCEPT !.pc = "list-messages"]
    /\ UNCHANGED <<siteVars, chunkVars>>

\* threads.messages.list(thread_id, {limit, order}) of a thread of n messages,
\* a message being named by its position in the thread, oldest first.
ListMessages(n, lim, order) ==
    [k \in 1..Min(lim, n) |-> IF order = "desc" THEN n + 1 - k ELSE k]

\* threads.messages.list("list-messages", run.thread_id, {limit: 10, order: "desc"});
\* return messages.
AskListMessages ==
    /\ ask.pc = "list-messages"
    /\ ask' = [ask EXCEPT !.pc = "done",
                          !.tasks = @ \cup {"list-messages"},
                          !.messages = ListMessages(threads[ask.run.thread_id], limit, "desc")]
    /\ UNCHANGED <<siteVars, threads, chunkVars>>

QuestionAssistant ==
    \/ \E url \in Sites, threadId \in ThreadIdInputs : TriggerAsk(url, threadId)
    \/ AskGetAssistant
    \/ AskThread
    \/ AskCreateMessage
    \/ AskRunCreate
    \/ \E status \in TerminalStatuses : \E e \in LastErrors(status) : AskRunEnds(status, e)
    \/ AskListMessages

\* ------------------------------------------------------------ the chunking loop on its own
\* Url lists for the chunking loop: n distinct urls, or n times one url.
ChunkInputs ==
    {[k \in 1..n |-> k] : n \in 0..MaxChunkLen} \cup {[k \in 1..n |-> 1] : n \in 0..MaxChunkLen}

InitChunk ==
    /\ chunkIn = <<>>
    /\ chunkOut = [done |-> FALSE, chunks |-> <<>>]

\* The chunking loop of process-site with its literal 25.
ApplyChunk ==
    /\ ~chunkOut.done
    /\ chunkOut' = [done |-> TRUE, chunks |-> Chunk(chunkIn, ChunkSize)]
    /\ UNCHANGED <<siteVars, askVars, chunkIn, dom, seg>>

\* ------------------------------------------------------------ process-single-url
\* The document of a page.  Node 1 is the Document, node 2 <html>, node 3
\* <body>; the elements inside <body> are 4, 5, ... in document order.  <head>
\* comes before <body> and holds no heading, so no walk forward meets it.
\* An element is a heading (h1..h6), a script or style element, or another
\* element; a script or style element has no element children.  The text of an
\* element's own text nodes is one token, the element's number.
Document == 1
Html == 2
Body == 3
\* null (and undefined, which the code tells apart from null nowhere).
Null == NoId

RECURSIVE Chain(_, _)
\* x and its ancestors up to <body>, for the parent vector p.
Chain(p, x) == IF x <= Body THEN {Body} ELSE {x} \cup Chain(p, p[x])

ParentVectors(n) ==
    {p \in [(Body + 1)..(Body + n) -> Body..(Body + n)] :
        /\ \A x \in DOMAIN p : p[x] < x
        /\ \A x \in DOMAIN p : p[x] \in Chain(p, x - 1)}

KindVectors(n) == [(Body + 1)..(Body + n) -> {"h", "div", "script"}]

\* The kind vectors that give no script or style element a child and no
\* heading a heading as its parent (the HTML parser closes an open heading
\* when the next heading starts; a heading deeper inside a heading is kept).
KindsFor(n, p) ==
    {kv \in KindVectors(n) :
        /\ \A x \in DOMAIN kv : kv[x] = "script" => \A y \in DOMAIN p : p[y] # x
        /\ \A x \in DOMAIN kv : (kv[x] = "h" /\ p[x] > Body) => kv[p[x]] # "h"}

DomsOf(n) ==
    UNION {{[n |-> n, parent |-> p, kind |-> k, removed |-> {}] : k \in KindsFor(n, p)}
           : p \in ParentVectors(n)}

Doms == UNION {DomsOf(n) : n \in 0..MaxNodes}

EmptyDom == [n |-> 0, parent |-> <<>>, kind |-> <<>>, removed |-> {}]

\* The elements inside <body> that are in the document.
Live(d) == {x \in (Body + 1)..(Body + d.n) : x \notin d.removed}

\* The members of a set of numbers, smallest first.
SortedSeq(S) ==
    [k \in 1..Cardinality(S) |-> CHOOSE x \in S : Cardinality({y \in S : y < x}) = k - 1]

\* querySelectorAll("script, style").forEach((el) => el.remove())
RemoveScripts(d) == [d EXCEPT !.removed = {x \in Live(d) : d.kind[x] = "script"}]

\* Array.from(querySelectorAll("h1, h2, h3, h4, h5, h6")): in document order.
QueryHeadings(d) == SortedSeq({x \in Live(d) : d.kind[x] = "h"})

\* Mutant of parentNode: the Document is its own parent (no root).
parentNodeNoRoot(d, x) ==
    IF x = Document THEN Document
    ELSE IF x <= Body THEN x - 1
    ELSE d.parent[x]

\* node.parentNode
parentNode(d, x) ==
    IF x = Document THEN Null
    ELSE IF x <= Body THEN x - 1
    ELSE d.parent[x]

\* node.parentElement: the parent when it is an element.
parentElement(d, x) == IF parentNode(d, x) = Document THEN Null ELSE parentNode(d, x)

\* node.nextElementSibling; a Document has no such property (undefined).
nextElementSibling(d, x) ==
    IF x <= Body THEN Null
    ELSE LET later == {y \in Live(d) : d.parent[y] = d.parent[x] /\ y > x}
         IN  IF later = {} THEN Null ELSE SortedSeq(later)[1]

\* element.textContent: the text of the element and its descendants, in
\* document order.
textContent(d, x) == SortedSeq({y \in Live(d) : x \in Chain(d.parent, y)})

\* array.join("\n") of texts; the separator is the token 0.
RECURSIVE JoinLines(_)
JoinLines(texts) ==
    IF texts = <<>> THEN <<>>
    ELSE IF Len(texts) = 1 THEN texts[1]
    ELSE texts[1] \o <<0>> \o JoinLines(Tail(texts))

NoSeg ==
    [pc |-> "idle", content |-> <<>>, lastElement |-> Null, i |-> 0, elements |-> <<>>,
     currentElement |-> Null, startElement |-> Null, endElement |-> Null, between |-> <<>>,
     error |-> "none"]

InitSegment ==
    /\ dom = EmptyDom
    /\ seg = NoSeg

\* content[content.length - 1]?.parentElement?.nextElementSibling
LastElement(d, content) ==
    IF content = <<>> THEN Null
    ELSE IF parentElement(d, content[Len(content)]) = Null THEN Null
    ELSE nextElementSibling(d, parentElement(d, content[Len(content)]))

\* io.runTask("get-url") and the code up to the loop: the page is fetched and
\* parsed, scripts and styles are removed, the headings and lastElement are
\* taken.  A fetch that rejects fails the run.
GetUrl(ok) ==
    /\ seg.pc = "get-url"
    /\ IF ok
       THEN LET d == RemoveScripts(dom)
                content == QueryHeadings(d) IN
              /\ dom' = d
              /\ seg' = [seg EXCEPT !.pc = "loop", !.content = content,
                                    !.lastElement = LastElement(d, content)]
       ELSE /\ dom' = dom
            /\ seg' = [seg EXCEPT !.pc = "failed", !.error = "FetchError"]
    /\ UNCHANGED <<siteVars, askVars, chunkIn, chunkOut>>

\* Mutant of LoopContinues: the loop stops one heading early.
LoopStopsEarly(i, length) == i < length - 1

\* for (let i = 0; i < content.length; i++)
LoopContinues(i, length) == i < length

\* The head of the loop over the headings: the walk of heading i begins
\* (const nextElement = content?.[i + 1] || lastElement), or the loop is over and
\* the run returns the page made of the sections.
HeadingLoop ==
    /\ seg.pc = "loop"
    /\ seg' = IF LoopContinues(seg.i, Len(seg.content))
              THEN LET element == seg.content[seg.i + 1]
                       nextElement == IF seg.i + 2 <= Len(seg.content)
                                      THEN seg.content[seg.i + 2] ELSE seg.lastElement
                   IN  [seg EXCEPT !.pc = "walk", !.currentElement = element,
                                   !.startElement = element, !.endElement = nextElement,
                                   !.between = <<>>]
              ELSE [seg EXCEPT !.pc = "done"]
    /\ UNCHANGED <<siteVars, askVars, chunkIn, chunkOut, dom>>

\* One test of the while condition of getElementsBetween and, when it holds, one
\* pass of the loop body; when it does not, or on break, the function returns and
\* the section of heading i is pushed.
WalkStep ==
    /\ seg.pc = "walk"
    /\ LET pushed == [seg EXCEPT
                        !.pc = "loop", !.i = @ + 1,
                        !.elements = Append(@,
                            [title |-> textContent(dom, seg.content[seg.i + 1]),
                             content |-> JoinLines([k \in 1..Len(seg.between) |->
                                                      textContent(dom, seg.between[k])])])]
           next == nextElementSibling(dom, seg.currentElement)
           up == parentNode(dom, seg.startElement)
       IN  seg' =
             IF seg.currentElement = Null \/ seg.currentElement = seg.endElement
             THEN pushed
             ELSE IF next = Null
                  THEN IF seg.startElement = Null
                       THEN [seg EXCEPT !.pc = "failed", !.error = "TypeError"]
                       ELSE IF up = seg.endElement
                            THEN [pushed EXCEPT !.currentElement = up, !.startElement = up]
                            ELSE [seg EXCEPT !.currentElement = up, !.startElement = up]
                  ELSE IF next # seg.endElement
                       THEN [seg EXCEPT !.currentElement = next,
                                        !.between = Append(@, next)]
                       ELSE [seg EXCEPT !.currentElement = next]
    /\ UNCHANGED <<siteVars, askVars, chunkIn, chunkOut, dom>>

ProcessSingleUrl ==
    \/ \E ok \in BOOLEAN : GetUrl(ok)
    \/ HeadingLoop
    \/ WalkStep

\* ------------------------------------------------------------ specification
ProcessSite(r) ==
    \/ \E url \in Sites : TriggerProcessSite(r, url)
    \/ GetSitemapUrls(r)
    \/ LogChunks(r)
    \/ InvokeBatch(r)
    \/ \E k \in 1..BatchSize, ok \in BOOLEAN : SingleUrlEnds(r, k, ok)
    \/ CollectBatch(r)
    \/ LogPages(r)
    \/ \E ok \in BOOLEAN : UploadFile(r, ok)
    \/ GetAssistant(r)
    \/ CreateAssistant(r)
    \/ SetAssistant(r)
    \/ UpdateAssistant(r)

Next ==
    \/ \E r \in Runs : ProcessSite(r)
    \/ \E id \in 1..MaxRuns : DeleteAssistant(id)

Init == InitSite /\ InitAsk /\ InitChunk /\ InitSegment

Spec == Init /\ [][Next]_vars

\* question-assistant beside one run of process-site that reads a sitemap of
\* two pages, and delete-assistant.
SmallSitemap(rec) ==
    /\ rec.sitemapUrls \in {<<>>, <<"p", "q">>}
    /\ rec.status # "non-success"

NextAsk ==
    \/ QuestionAssistant
    \/ ProcessSite(1) /\ SmallSitemap(run'[1])
    \/ \E id \in 1..MaxRuns : DeleteAssistant(id)

SpecAsk == Init /\ [][NextAsk]_vars

\* process-site with the job's concurrencyLimit bypassed: the event starts a
\* run whatever runs are executing, so runs interleave task by task.
TriggerBypassed(r, url) ==
    /\ run[r].pc = "idle"
    /\ \A q \in Runs : q < r => run[q].pc # "idle"
    /\ run' = [run EXCEPT ![r] = [NoRun EXCEPT !.pc = "get-sitemap-urls", !.url = url]]
    /\ UNCHANGED <<registry, assistants, files, askVars, chunkVars>>

\* The runs that race read a sitemap of two pages and fetch both.
RaceScope(rec) ==
    /\ SmallSitemap(rec)
    /\ \A k \in DOMAIN rec.results : rec.results[k] # "failed"

NextRace ==
    \/ \E r \in Runs :
          /\ ProcessSite(r) \/ \E url \in Sites : TriggerBypassed(r, url)
          /\ RaceScope(run'[r])
    \/ \E id \in 1..MaxRuns : DeleteAssistant(id)

SpecRace == Init /\ [][NextRace]_vars

\* The chunking loop applied to a url list.
InitChunkInputs ==
    /\ InitSite /\ InitAsk /\ InitSegment
    /\ chunkIn \in ChunkInputs
    /\ chunkOut = [done |-> FALSE, chunks |-> <<>>]

SpecChunk == InitChunkInputs /\ [][ApplyChunk]_vars

\* process-single-url invoked for a page whose document is any of Doms.
InitSegmentInputs ==
    /\ InitSite /\ InitAsk /\ InitChunk
    /\ dom \in Doms
    /\ seg = [NoSeg EXCEPT !.pc = "get-url"]

SpecSegment == InitSegmentInputs /\ [][ProcessSingleUrl]_vars

\* getElementsBetween called on its own: for any document without script or
\* style elements, any heading of it as the start and any node of it, or null,
\* as the boundary.  The loop is scheduled until it returns.
InitWalkInputs ==
    /\ InitSite /\ InitAsk /\ InitChunk
    /\ dom \in {d \in Doms : \A x \in DOMAIN d.kind : d.kind[x] # "script"}
    /\ \E i \in 0..(Len(QueryHeadings(dom)) - 1) :
       \E end \in Live(dom) \cup {Document, Html, Body, Null} :
         seg = [NoSeg EXCEPT !.pc = "walk", !.content = QueryHeadings(dom), !.i = i,
                             !.currentElement = QueryHeadings(dom)[i + 1],
                             !.startElement = QueryHeadings(dom)[i + 1],
                             !.endElement = end]

SpecWalk == InitWalkInputs /\ [][WalkStep]_vars /\ WF_vars(WalkStep)

\* ------------------------------------------------------------ properties of process-site
\* The runs of a site that returned, and the assistants created for a site.
DoneRuns(s) == {r \in Runs : run[r].pc = "done" /\ run[r].url = s}
CreatedFor(s) == {id \in DOMAIN assistants : assistants[id].name = s}

\* C1: of two runs of one site that both returned, the earlier being the
\* site's first run to return, the first created an assistant and stored its id,
\* the second took the update branch and created and stored nothing, both
\* returned the same id, the registry holds that id, and that assistant is the
\* only one ever created for the site.
C1_PublishTwiceSameId ==
    \A s \in Sites : \A r1, r2 \in DoneRuns(s) :
        (r1 < r2 /\ \A q \in DoneRuns(s) : r1 <= q) =>
            /\ {"create-assistant", "set-assistant"} \subseteq run[r1].tasks
            /\ "update-assistant" \notin run[r1].tasks
            /\ "update-assistant" \in run[r2].tasks
            /\ run[r2].tasks \cap {"create-assistant", "set-assistant"} = {}
            /\ run[r2].returned = run[r1].returned
            /\ run[r1].returned # NoId
            /\ registry[s] = run[r1].returned
            /\ CreatedFor(s) = {run[r1].returned}

C1_Witness ==
    \E s \in Sites : \E r1, r2 \in DoneRuns(s) :
        r1 < r2 /\ "update-assistant" \in run[r2].tasks

\* C2: with the runs admitted by concurrencyLimit, at most one assistant is
\* ever created for a site, and a registry value that is set never changes.
C2_AtMostOnePerSite == \A s \in Sites : Cardinality(CreatedFor(s)) <= 1

C2_RegistryStable == \A s \in Sites : registry[s] # NoId => registry'[s] = registry[s]

C2_OneKnowledgeBasePerSite == [](C2_AtMostOnePerSite) /\ [][C2_RegistryStable]_vars

C2_Witness ==
    \E r \in Runs :
        /\ run[r].pc = "update-assistant"
        /\ run[r].assistant = registry[run[r].url]
        /\ Cardinality(CreatedFor(run[r].url)) = 1

\* The number of entries of a sequence that are equal to x.
Count(seq, x) == Cardinality({k \in DOMAIN seq : seq[k] = x})

\* The urls of the pages collected so far.
PagesUrls(r) == [k \in 1..Len(run[r].pages) |-> run[r].pages[k].url]

\* The crawl of run r is over: every batch was collected.
Crawled(r) == run[r].pc \in {"log-pages", "upload-file"}

\* C3: when the crawl is over, whatever invocations failed, the pages are as
\* many as the sitemap urls less the failures, each url has as many pages as it
\* has invocations that succeeded; and no failure of an invocation fails the run.
C3_PartialFailureTolerated ==
    \A r \in Runs :
        /\ Crawled(r) =>
              /\ Len(run[r].pages) = Len(run[r].sitemapUrls) - Cardinality(run[r].dropped)
              /\ \A u \in Entries :
                    Count(PagesUrls(r), u) =
                        Cardinality({k \in DOMAIN run[r].sitemapUrls :
                                        run[r].sitemapUrls[k] = u /\ (k - 1) \notin run[r].dropped})
        /\ run[r].pc = "wait-batch" => run[r].error = "none"
        /\ (run[r].pc = "failed" /\ "invoke-batch" \in run[r].tasks)
              => run[r].error \in {"UploadError", "UpdateError"}

C3_Witness ==
    \E r \in Runs :
        /\ run[r].pc = "upload-file"
        /\ Len(run[r].chunks) = 2
        /\ Cardinality(run[r].dropped) = 1
        /\ Len(run[r].pages) = BatchSize

\* A throw inside get-sitemap-urls is fatal: a run that failed in the task ran
\* no task at all (no batch, no upload, no create, update or registry write), a
\* run that got past the task holds a url array, and every file and assistant
\* of the account is the work of a run that logged the task.
SitemapThrowIsFatal ==
    /\ \A r \in Runs :
          /\ (run[r].pc = "failed" /\ run[r].error \in {"FetchError", "MalformedSitemapError"})
                => run[r].tasks = {}
          /\ (Executing(r) /\ run[r].pc # "get-sitemap-urls")
                => /\ "get-sitemap-urls" \in run[r].tasks
                   /\ Len(run[r].sitemapUrls) >= 2
          /\ run[r].tasks # {} => "get-sitemap-urls" \in run[r].tasks
    /\ files = Cardinality({r \in Runs : "upload-file" \in run[r].tasks})
    /\ Len(assistants) = Cardinality({r \in Runs : "create-assistant" \in run[r].tasks})
    /\ \A s \in Sites :
          registry[s] # NoId => \E r \in Runs : run[r].url = s /\ "create-assistant" \in run[r].tasks

\* C7 as stated, a failure of the sitemap being what C8 says it is (a request
\* that fails or answers a non-success status, a <url> without <loc>): no
\* per-URL invocation is launched by a run whose sitemap failed.
C7_SitemapFailureFatalAsStated ==
    \A r \in Runs :
        (\/ run[r].status = "non-success"
         \/ \E k \in DOMAIN run[r].sitemapUrls : run[r].sitemapUrls[k] = Undefined)
            => "invoke-batch" \notin run[r].tasks

\* C8 as stated: a run holds a url list only from a response of success status
\* whose every <url> entry has a <loc>.
C8_SitemapErrorsAsStated ==
    \A r \in Runs :
        run[r].pc = "log-chunks" =>
            /\ run[r].status = "success"
            /\ \A k \in DOMAIN run[r].sitemapUrls : run[r].sitemapUrls[k] # Undefined

RECURSIVE IsSubsequence(_, _)
IsSubsequence(a, b) ==
    IF a = <<>> THEN TRUE
    ELSE IF b = <<>> THEN FALSE
    ELSE IF Head(a) = Head(b) THEN IsSubsequence(Tail(a), Tail(b))
    ELSE IsSubsequence(a, Tail(b))

\* The number of sitemap urls whose batch was collected.
CollectedPrefix(r) ==
    IF run[r].ci <= Len(run[r].chunks) THEN run[r].chunks[run[r].ci].index
    ELSE Len(run[r].sitemapUrls)

\* The sitemap urls of the collected batches whose invocation succeeded, in
\* sitemap order.
KeptUrls(r) ==
    LET kept == SelectSeq([k \in 1..CollectedPrefix(r) |-> k],
                          LAMBDA k : (k - 1) \notin run[r].dropped)
    IN  [j \in 1..Len(kept) |-> run[r].sitemapUrls[kept[j]]]

\* C10: at every point of the crawl the page urls are, in sitemap order, the
\* urls of the collected batches whose invocation succeeded: a subsequence of
\* the sitemap url list, in whatever order the invocations of a batch ended.
C10_PagesInCrawlOrder ==
    \A r \in Runs :
        run[r].pc \in {"invoke-batch", "wait-batch", "log-pages", "upload-file"} =>
            /\ PagesUrls(r) = KeptUrls(r)
            /\ IsSubsequence(PagesUrls(r), run[r].sitemapUrls)

C10_Witness ==
    \E r \in Runs :
        /\ run[r].pc = "upload-file"
        /\ run[r].dropped = {1}
        /\ PagesUrls(r) = <<"q", "p">>

\* C11 as stated: the corpus of a crawl holds at most one page for each
\* distinct page url, whatever url list the sitemap gave.
C11_CorpusDeduplicated ==
    \A r \in Runs :
        Crawled(r) => \A u \in PageUrls : Count(PagesUrls(r), u) <= 1

\* The invocations of run r that are in flight.
InFlight(r) == {k \in DOMAIN run[r].results : run[r].results[k] = "pending"}

\* The state part of C12: invocations are in flight only while their batch is
\* awaited, they are the invocations of that one batch and no more than the
\* batch size; batch ci is launched only when as many batches as went before
\* were launched, and every url of the batches before it is accounted for,
\* by a page or by a failure.
BatchBarrier ==
    /\ \A r \in Runs :
          /\ run[r].pc # "wait-batch" => run[r].results = <<>>
          /\ run[r].pc = "wait-batch" =>
                /\ Len(run[r].results) = Len(run[r].chunks[run[r].ci].urls)
                /\ Cardinality(InFlight(r)) <= BatchSize
                /\ Len(run[r].batchKeys) = run[r].ci
                /\ run[r].batchKeys[run[r].ci] = run[r].chunks[run[r].ci].index
          /\ run[r].pc = "invoke-batch" => Len(run[r].batchKeys) = run[r].ci - 1
          /\ run[r].pc \in {"invoke-batch", "wait-batch", "log-pages", "upload-file"} =>
                Len(run[r].pages) + Cardinality(run[r].dropped) = CollectedPrefix(r)
    /\ Cardinality({r \in Runs : InFlight(r) # {}}) <= 1

\* The step part of C12: a step that collects results or launches a batch
\* starts in a state where no invocation of the run is in flight.
BarrierStep ==
    \A r \in Runs :
        (\/ run'[r].pages # run[r].pages
         \/ run'[r].dropped # run[r].dropped
         \/ Len(run'[r].batchKeys) > Len(run[r].batchKeys))
            => InFlight(r) = {}

\* C12: batches run one after another behind a full-batch barrier: no batch is
\* launched and no result is collected while an invocation of the batch before
\* is still in flight, so all invocations in flight belong to one batch and
\* are no more than the batch size.
C12_FullBatchBarrier == []BatchBarrier /\ [][BarrierStep]_vars

\* The first batch is awaited with one invocation ended and the other still in
\* flight: nothing of the batch is collected yet.
C12_Witness ==
    \E r \in Runs :
        /\ run[r].pc = "wait-batch"
        /\ run[r].ci = 1
        /\ run[r].results = <<"ok", "pending">>
        /\ run[r].pages = <<>>
        /\ Len(run[r].chunks) = 2

\* The runs of site s that created an assistant.
Creators(s) == {r \in Runs : run[r].url = s /\ "create-assistant" \in run[r].tasks}

\* The state part of C13, runs interleaving: a run creates an assistant only
\* after it read "not found", every such run adds one assistant of the site,
\* and the registry entry of a site, once written, is one of them, so that all
\* the others are referenced by nothing.
RaceLeaks ==
    \A s \in Sites :
        /\ \A r \in Creators(s) : Executing(r) => run[r].assistant = NoId
        /\ Cardinality(CreatedFor(s)) = Cardinality(Creators(s))
        /\ registry[s] # NoId => registry[s] \in CreatedFor(s)
        /\ (\E r \in Runs : run[r].url = s /\ "set-assistant" \in run[r].tasks)
              => Cardinality({id \in CreatedFor(s) : id # registry[s]})
                    = Cardinality(CreatedFor(s)) - 1

\* The step part of C13: the registry write of a run replaces whatever entry
\* is there by the id the run created.
LaterWriteWins ==
    \A r \in Runs :
        (run[r].pc = "set-assistant" /\ run'[r].pc = "done")
            => registry'[run[r].url] = run[r].id

\* C13: with the concurrency limit bypassed, each of two interleaved runs of an
\* unregistered site that read "not found" creates an assistant of its own;
\* the registry then refers to the one whose write came last and the other is
\* left unreferenced.
C13_RaceLeaksKnowledgeBase == []RaceLeaks /\ [][LaterWriteWins]_vars

\* Two runs of siteA both created and registered an assistant: two assistants
\* of the site exist, the registry refers to the first one created (its run
\* wrote last) and the second is referenced by nothing.
C13_Witness ==
    \E r1, r2 \in Runs :
        /\ r1 # r2
        /\ \A r \in {r1, r2} :
              /\ run[r].pc = "done"
              /\ run[r].url = "siteA"
              /\ {"get-assistant", "create-assistant", "set-assistant"} \subseteq run[r].tasks
        /\ run[r1].returned = 1
        /\ run[r2].returned = 2
        /\ CreatedFor("siteA") = {1, 2}
        /\ registry["siteA"] = 1

\* ------------------------------------------------------------ properties of the chunking loop
\* C5: a list of length L is cut into ceil(L/25) batches; batch k (from 0)
\* has index 25k and holds urls[25k .. 25k+24], so it is not empty and holds at
\* most 25 urls; the indices increase strictly; the batches' urls in order are
\* the list.
C5_ChunkPartition ==
    chunkOut.done =>
        LET L == Len(chunkIn)
            out == chunkOut.chunks
            n == Len(out)
        IN  /\ n * 25 >= L
            /\ (n - 1) * 25 < L
            /\ \A k \in 1..n :
                  /\ out[k].index = 25 * (k - 1)
                  /\ Len(out[k].urls) = Min(25, L - 25 * (k - 1))
                  /\ Len(out[k].urls) \in 1..25
                  /\ \A j \in 1..Len(out[k].urls) : out[k].urls[j] = chunkIn[25 * (k - 1) + j]
            /\ \A k \in 1..(n - 1) : out[k].index < out[k + 1].index
            /\ \A k1, k2 \in 1..n : k1 # k2 => out[k1].index # out[k2].index
            /\ Flatten([k \in 1..n |-> out[k].urls]) = chunkIn

C5_Witness ==
    /\ chunkOut.done
    /\ Len(chunkIn) = 51
    /\ chunkIn[51] = 51
    /\ Len(chunkOut.chunks) = 3
    /\ Len(chunkOut.chunks[3].urls) = 1

\* ------------------------------------------------------------ properties of question-assistant
\* C4: a run whose site has no registry entry throws UnknownSiteError at the
\* lookup, and touches no thread, message or run: the step changes no thread,
\* and the failed run has logged no task but the lookup.
C4_UnknownSiteState ==
    /\ ask.error.kind = "UnknownSiteError" =>
          /\ ask.pc = "failed"
          /\ ask.tasks = {"get-assistant"}
          /\ ask.thread = NoId
          /\ ask.run = NoThreadRun
          /\ ask.messages = <<>>
    /\ ask.pc \in {"thread", "create-message", "run-thread", "run-wait", "list-messages", "done"}
          => ask.assistant # NoId

C4_UnknownSiteStep ==
    (ask.pc = "get-assistant" /\ registry[ask.url] = NoId /\ ask' # ask) =>
        /\ ask'.pc = "failed"
        /\ ask'.error.kind = "UnknownSiteError"
        /\ threads' = threads

C4_UnknownSiteNoSideEffects == [](C4_UnknownSiteState) /\ [][C4_UnknownSiteStep]_vars

C4_Witness ==
    /\ ask.error.kind = "UnknownSiteError"
    /\ Truthy(ask.threadId)
    /\ ask.threadId.value \in DOMAIN threads
    /\ threads[ask.threadId.value] > 0

\* C9: a run that ends in a status other than completed makes the job throw
\* RunFailedError with that status and the run's last_error, and no messages are
\* listed; only after a completed run are the messages listed, and the job
\* returns the newest min(10, n) of the thread's n messages, newest first.
C9_RunFailedOrMessages ==
    /\ ask.pc = "list-messages" => ask.run.status = "completed"
    /\ ask.run.status \in (TerminalStatuses \ {"completed"}) =>
          /\ ask.pc = "failed"
          /\ ask.error = [kind |-> "RunFailedError", status |-> ask.run.status,
                          last_error |-> ask.run.last_error]
    /\ ask.error.kind = "RunFailedError" =>
          /\ ask.run.status \in {"failed", "cancelled", "expired"}
          /\ "list-messages" \notin ask.tasks
          /\ ask.messages = <<>>
    /\ ask.pc = "done" =>
          LET n == threads[ask.run.thread_id] IN
            /\ ask.run.status = "completed"
            /\ Len(ask.messages) = Min(10, n)
            /\ \A k \in 1..Len(ask.messages) : ask.messages[k] = n + 1 - k

C9_Witness ==
    /\ ask.pc = "failed"
    /\ ask.error.kind = "RunFailedError"
    /\ ask.error.status = "expired"
    /\ threads[ask.thread] > 10

\* A returned list that was cut to the ten newest messages.
C9_TruncatedList ==
    /\ ask.pc = "done"
    /\ threads[ask.thread] > 10
    /\ Len(ask.messages) = 10

\* ------------------------------------------------------------ properties of process-single-url
\* The headings of the document.
HeadingNodes == {x \in Live(dom) : dom.kind[x] = "h"}

\* C6: the run returns one section per heading, in the document order of the
\* headings, each titled with its heading's text; while the loop runs there is
\* one section per heading passed; a page without headings gives no section,
\* and nothing but the fetch fails the run.
C6_OneSectionPerHeading ==
    /\ seg.pc = "done" =>
          /\ Len(seg.elements) = Cardinality(HeadingNodes)
          /\ \A k \in 1..Len(seg.elements) :
                /\ seg.elements[k].title # <<>>
                /\ seg.elements[k].title[1] \in HeadingNodes
                /\ seg.elements[k].title = textContent(dom, seg.elements[k].title[1])
          /\ \A k \in 1..(Len(seg.elements) - 1) :
                seg.elements[k].title[1] < seg.elements[k + 1].title[1]
    /\ seg.pc \in {"loop", "walk"} => Len(seg.elements) = seg.i
    /\ (seg.pc \in {"loop", "walk", "done"} /\ HeadingNodes = {}) =>
          seg.pc # "walk" /\ seg.elements = <<>>
    /\ seg.pc = "failed" => seg.error = "FetchError"

C6_Witness ==
    /\ seg.pc = "done"
    /\ Len(seg.elements) = 2
    /\ Len(seg.elements[1].title) = 2
    /\ dom.removed # {}

\* A page without headings that was processed to the end.
C6_NoHeadingsDone == seg.pc = "done" /\ dom.n > 0 /\ seg.elements = <<>>

\* C14: getElementsBetween returns, whatever the document, the start heading
\* and the boundary (a node that is met, a node that is never met, or null): the
\* walk never throws, and it ends at the latest when it has climbed past the
\* Document, which has no parent.
C14_WalkTerminates == <>(seg.pc = "loop") /\ [](seg.pc \in {"walk", "loop"})

\* The walk returned without meeting its boundary, which is a node of the
\* document: it climbed to the Document, found no parent and stopped.
C14_Witness ==
    /\ seg.pc = "loop"
    /\ seg.i = 1
    /\ seg.currentElement = Null
    /\ seg.startElement = Null
    /\ seg.endElement \in Live(dom)

\* Element a contains element b.
Contains(a, b) == a # b /\ a \in Chain(dom.parent, b)

\* C15 as stated: in the walk of a heading that is not the last, no collected
\* element is the next heading, contains it, or follows it in document order.
C15_StopsAtNextHeading ==
    (seg.pc = "walk" /\ seg.i + 2 <= Len(seg.content)) =>
        \A k \in DOMAIN seg.between :
            /\ seg.between[k] # seg.content[seg.i + 2]
            /\ ~Contains(seg.between[k], seg.content[seg.i + 2])
            /\ seg.between[k] < seg.content[seg.i + 2]

\* C16 as stated: in the walk of the last heading every collected element
\* follows the heading inside the heading's parent.
C16_TailBoundaryBounds ==
    (seg.pc = "walk" /\ seg.i + 1 = Len(seg.content)) =>
        \A k \in DOMAIN seg.between :
            /\ seg.between[k] > seg.content[seg.i + 1]
            /\ Contains(parentNode(dom, seg.content[seg.i + 1]), seg.between[k])

\* Heading number j (from 1) has no following content, as C17 puts it: its
\* next sibling element is the next heading, or it is the last heading and has
\* no following sibling element.
NoFollowingContent(j) ==
    \/ /\ j < Len(seg.content)
       /\ nextElementSibling(dom, seg.content[j]) = seg.content[j + 1]
    \/ /\ j = Len(seg.content)
       /\ nextElementSibling(dom, seg.content[j]) = Null

\* C17 as stated: the section of a heading with no following content has an
\* empty content string, and its walk raises no error.
C17_EmptySection ==
    /\ \A j \in DOMAIN seg.elements :
          NoFollowingContent(j) => seg.elements[j].content = <<>>
    /\ seg.error \notin {"TypeError"}

\* The first case of C17 alone: a heading whose next sibling element is the
\* next heading has an empty section.
HeadingThenHeadingEmpty ==
    \A j \in DOMAIN seg.elements :
        (j < Len(seg.content) /\ nextElementSibling(dom, seg.content[j]) = seg.content[j + 1])
            => seg.elements[j].content = <<>>

\* The final section is bounded whenever lastElement exists: every element it
\* collects is a later sibling of the last heading.
TailBoundedWhenPresent ==
    (seg.pc = "walk" /\ seg.i + 1 = Len(seg.content) /\ seg.lastElement # Null) =>
        \A k \in DOMAIN seg.between :
            /\ seg.between[k] > seg.content[seg.i + 1]
            /\ parentNode(dom, seg.between[k]) = parentNode(dom, seg.content[seg.i + 1])

\* The invocation names a thread: payload.threadId is a thread id (the empty
\* string names no thread and counts as no id supplied).
Supplied == ask.threadId.present /\ ask.threadId.value # 0

\* The task that resolves the thread of the invocation.
ThreadTask == IF Supplied THEN "get-thread" ELSE "create-thread"

\* The state part of C18: what has been done at each position of an invocation.
AskOrder ==
    /\ ask.pc = "thread" => ask.tasks = {"get-assistant"}
    /\ ask.pc \in {"create-message", "run-thread", "run-wait", "list-messages", "done"} =>
          /\ {"get-assistant", ThreadTask} \subseteq ask.tasks
          /\ ask.tasks \cap {"get-thread", "create-thread"} = {ThreadTask}
          /\ ask.thread \in DOMAIN threads
          /\ Supplied => ask.thread = ask.threadId.value
          /\ ask.assistant = registry[ask.url]
          /\ ask.assistant # NoId
    /\ ask.pc = "create-message" =>
          ask.tasks \cap {"create-message", "run-thread", "list-messages"} = {}
    /\ ask.pc \in {"run-thread", "run-wait"} =>
          /\ "create-message" \in ask.tasks
          /\ ask.tasks \cap {"run-thread", "list-messages"} = {}
          /\ threads[ask.thread] >= 1
    /\ ask.pc \in {"get-assistant", "thread", "create-message", "run-thread"} =>
          ask.run = NoThreadRun
    /\ ask.pc \in {"run-wait", "list-messages", "done"} =>
          /\ ask.run.thread_id = ask.thread
          /\ ask.run.assistant_id = ask.assistant
    /\ ask.pc = "run-wait" => ask.run.status = "queued"
    /\ ask.pc = "list-messages" =>
          /\ ask.run.status = "completed"
          /\ "run-thread" \in ask.tasks
          /\ "list-messages" \notin ask.tasks
    /\ "list-messages" \in ask.tasks => ask.pc = "done" /\ ask.run.status = "completed"
    /\ (ask.pc = "failed" /\ ask.error.kind = "ThreadError") =>
          Supplied /\ "create-thread" \notin ask.tasks

\* The positions an invocation can move between.
AskMoves ==
    {<<"get-assistant", "thread">>, <<"get-assistant", "failed">>,
     <<"thread", "create-message">>, <<"thread", "failed">>,
     <<"create-message", "run-thread">>,
     <<"run-thread", "run-wait">>, <<"run-thread", "failed">>,
     <<"run-wait", "list-messages">>, <<"run-wait", "failed">>,
     <<"list-messages", "done">>,
     <<"idle", "get-assistant">>, <<"done", "get-assistant">>, <<"failed", "get-assistant">>}

\* The step part of C18: an invocation moves along the order only, and a
\* thread is created in the step that resolves the thread of an invocation that
\* names none, and in no other step.
AskOrderStep ==
    /\ ask' # ask => <<ask.pc, ask'.pc>> \in AskMoves
    /\ (Len(threads') # Len(threads)) <=>
          (ask.pc = "thread" /\ ask'.pc # "thread" /\ ~Supplied)
    /\ Len(threads') \in {Len(threads), Len(threads) + 1}

DeleteLeavesRegistry ==
    /\ (\E id \in DOMAIN assistants : ~assistants[id].deleted /\ assistants'[id].deleted)
          => registry' = registry /\ Len(assistants') = Len(assistants)
    /\ \A s \in Sites : registry[s] # NoId => registry'[s] = registry[s]

\* The state part of C19: an invocation of question-assistant or a run of
\* process-site that got past its lookup holds what the registry holds for its
\* site, deleted or not; and a run refused for its assistant holds an id that is
\* deleted and still in the registry.
StillResolvesDeleted ==
    /\ ask.pc \in {"thread", "create-message", "run-thread", "run-wait", "list-messages", "done"}
          => ask.assistant = registry[ask.url] /\ ask.assistant # NoId
    /\ (ask.pc = "failed" /\ ask.error.kind = "RunError") =>
          /\ assistants[ask.assistant].deleted
          /\ registry[ask.url] = ask.assistant
    /\ \A r \in Runs :
          /\ run[r].pc = "update-assistant" =>
                run[r].assistant = registry[run[r].url] /\ run[r].assistant # NoId
          /\ (run[r].pc = "failed" /\ run[r].error = "UpdateError") =>
                /\ registry[run[r].url] # NoId
                /\ assistants[registry[run[r].url]].deleted

\* C19: delete-assistant deletes the assistant and writes nothing to the
\* registry: every entry, the one that holds the deleted id too, stays as it
\* was, and a later question-assistant or process-site for the site resolves
\* the deleted id.
C19_DeleteLeavesRegistry == []StillResolvesDeleted /\ [][DeleteLeavesRegistry]_vars

\* After the assistant of a site was deleted, an invocation of
\* question-assistant for the site looked the site up and holds the deleted id.
C19_Witness ==
    /\ ask.pc = "thread"
    /\ ask.tasks = {"get-assistant"}
    /\ ask.assistant # NoId
    /\ assistants[ask.assistant].deleted
    /\ registry[ask.url] = ask.assistant

\* After the assistant of a site was deleted, a run of process-site for the
\* site looked the site up and goes to update the deleted id.
DeletedIdResolvedByProcessSite ==
    \E r \in Runs :
        /\ run[r].pc = "update-assistant"
        /\ assistants[run[r].assistant].deleted

\* The tasks of a run that come after the upload.
AfterUpload == {"get-assistant", "create-assistant", "set-assistant", "update-assistant"}

\* The state part of C20: a run is at or past the registry lookup only with its
\* one file uploaded and processed; it never both creates and updates; it
\* returns after exactly one of the two; it writes the registry on the create
\* path only; a run whose upload failed ran none of these tasks; and the files
\* of the account are one for each run that uploaded.
UploadThenCreateOrUpdate ==
    /\ \A r \in Runs :
          /\ (run[r].pc \in AfterUpload \/ run[r].tasks \cap AfterUpload # {}) =>
                "upload-file" \in run[r].tasks
          /\ run[r].pc \in AfterUpload => run[r].file \in 1..files
          /\ ~({"create-assistant", "update-assistant"} \subseteq run[r].tasks)
          /\ (run[r].tasks \cap {"create-assistant", "set-assistant", "update-assistant"} # {})
                => "get-assistant" \in run[r].tasks
          /\ "set-assistant" \in run[r].tasks => "create-assistant" \in run[r].tasks
          /\ run[r].pc = "done" =>
                /\ {"upload-file", "get-assistant"} \subseteq run[r].tasks
                /\ Cardinality(run[r].tasks \cap {"create-assistant", "update-assistant"}) = 1
                /\ "create-assistant" \in run[r].tasks <=> "set-assistant" \in run[r].tasks
          /\ (run[r].pc = "failed" /\ run[r].error = "UploadError") =>
                run[r].tasks \cap (AfterUpload \cup {"upload-file"}) = {}
          /\ (run[r].pc = "failed" /\ run[r].error = "UpdateError") =>
                run[r].tasks \cap {"create-assistant", "set-assistant"} = {}
    /\ files = Cardinality({r \in Runs : "upload-file" \in run[r].tasks})

\* The step part of C20: the registry is written only by the set-assistant step
\* of a run that created an assistant, and a step in which the upload fails
\* changes no assistant, no file and no registry entry.
RegistryWrittenOnCreatePath ==
    /\ registry' # registry =>
          \E r \in Runs : /\ run[r].pc = "set-assistant"
                          /\ "create-assistant" \in run[r].tasks
                          /\ run'[r].pc = "done"
    /\ \A r \in Runs :
          (run[r].pc = "upload-file" /\ run'[r].pc = "failed") =>
              registry' = registry /\ assistants' = assistants /\ files' = files

\* C20: a run past the sitemap uploads exactly one file and looks the site up
\* only when the file is processed; it then creates or updates, never both, and
\* writes the registry only after a create; a failed upload ends the run with
\* nothing created, updated or written; this whatever invocations failed.
C20_UploadThenCreateOrUpdate ==
    []UploadThenCreateOrUpdate /\ [][RegistryWrittenOnCreatePath]_vars

\* Every page of the run failed, the upload of the empty corpus was processed
\* and the run, having found no entry, goes to create the assistant.
C20_Witness ==
    \E r \in Runs :
        /\ run[r].pc = "create-assistant"
        /\ run[r].pages = <<>>
        /\ Cardinality(run[r].dropped) = Len(run[r].sitemapUrls)
        /\ Len(run[r].sitemapUrls) = MaxLen
        /\ run[r].file # NoId

====
